---- MODULE Spec2Model ----
(***************************************************************************)
(* Model of ship/isis/datunits/isisunit.py: the AIsisUnit base class and   *)
(* its UnknownUnit, CommentUnit and HeaderUnit variants.                   *)
(*                                                                         *)
(* Text is modelled as sequences of one-character strings, so that         *)
(* str.strip, str.split, str.format and int() are computed, not assumed.   *)
(* Python list indices are 0-based; At(s, i) reads s[i] of the Python list.*)
(***************************************************************************)
EXTENDS Integers, Sequences, FiniteSets, TLC

VARIABLES
    rawLines,    \* the raw-line sequence of the file a loader is reading
    data,        \* CommentUnit.data: the stored comment lines
    no_of_rows,  \* CommentUnit.no_of_rows: <<>> while the attribute is unset, else <<n>>
    head_data,   \* AIsisUnit.head_data (a mapping; UnknownUnit keeps 'all')
    output,      \* <<>>, or <<outcome>> of getData called since the last change
    origin,      \* how the CommentUnit got its content since construction
    last,        \* the last call that was no getData: name, arguments, outcome
    row_data,    \* AIsisUnit.row_data: rowdata_key -> the rows of that collection
    py,          \* the major version of the Python interpreter running the code
    cursor,      \* the loader's cursor: the Python index of the next line to read
    owners,      \* per line of the file, how many units the loader gave it to
    step,        \* what the loader adds to the value a CommentUnit returns
    heap,        \* the mutable objects units refer to, by address
    units,       \* unit name -> the addresses its row_data and head_data hold
    unit_type    \* AIsisUnit._unit_type: which class the unit is

vars == <<rawLines, data, no_of_rows, head_data, output, origin, last,
          row_data, py, cursor, owners, step, heap, units,
          unit_type>>

commentVars == <<data, no_of_rows, origin>>
rowVars == <<row_data, py>>
loaderVars == <<cursor, owners, step>>
copyVars == <<heap, units>>

---------------------------------------------------------------------------
(* Bounds *)

MaxBody == 2        \* free-text lines following a count line in a file
MaxCount == 2       \* largest count written on a count line
MaxData == 3        \* stored comment lines
MaxRows == 4        \* rows in a row collection
MaxValue == 3       \* largest value of the ordering column
MaxCopyRows == 1    \* rows in a collection of a unit that is copied

---------------------------------------------------------------------------
(* Optional values: Python's None / an unset attribute *)

None == << >>
Some(x) == <<x>>
IsNone(o) == Len(o) = 0
Val(o) == o[1]

---------------------------------------------------------------------------
(* Strings *)

FieldWidth == 10

IsSpace(c) == c \in {" ", "\n", "\t"}

RECURSIVE lstrip(_)
lstrip(s) ==
    IF Len(s) = 0 THEN s
    ELSE IF IsSpace(Head(s)) THEN lstrip(Tail(s)) ELSE s

RECURSIVE rstrip(_)
rstrip(s) ==
    IF Len(s) = 0 THEN s
    ELSE IF IsSpace(s[Len(s)]) THEN rstrip(SubSeq(s, 1, Len(s) - 1)) ELSE s

\* str.strip(): leading and trailing whitespace removed
strip(s) == rstrip(lstrip(s))

\* str.split('\n'): the pieces between newlines, one more than the newlines
RECURSIVE split(_)
split(s) ==
    IF \A i \in 1..Len(s) : s[i] # "\n" THEN <<s>>
    ELSE LET i == CHOOSE k \in 1..Len(s) :
                      s[k] = "\n" /\ \A j \in 1..(k - 1) : s[j] # "\n"
         IN <<SubSeq(s, 1, i - 1)>> \o split(SubSeq(s, i + 1, Len(s)))

DigitChars == <<"0", "1", "2", "3", "4", "5", "6", "7", "8", "9">>

RECURSIVE NatToStr(_)
NatToStr(n) ==
    IF n < 10 THEN <<DigitChars[n + 1]>>
    ELSE NatToStr(n \div 10) \o <<DigitChars[(n % 10) + 1]>>

\* str(n) of an int
str(n) == IF n < 0 THEN <<"-">> \o NatToStr(0 - n) ELSE NatToStr(n)

Spaces(n) == [i \in 1..n |-> " "]

\* '{:<10}'.format(s)
FormatLeft(s) ==
    IF Len(s) >= FieldWidth THEN s ELSE s \o Spaces(FieldWidth - Len(s))

\* '{:>10}'.format(s)
FormatRight(s) ==
    IF Len(s) >= FieldWidth THEN s ELSE Spaces(FieldWidth - Len(s)) \o s

IsDigit(c) == \E d \in 1..10 : DigitChars[d] = c

DigitVal(c) == (CHOOSE d \in 1..10 : DigitChars[d] = c) - 1

RECURSIVE DigitsToNat(_)
DigitsToNat(s) ==
    IF Len(s) = 0 THEN 0
    ELSE 10 * DigitsToNat(SubSeq(s, 1, Len(s) - 1)) + DigitVal(s[Len(s)])

\* int(s): surrounding whitespace ignored, an optional sign, then digits;
\* anything else raises ValueError
int(s) ==
    LET t == strip(s)
        signed == Len(t) > 0 /\ Head(t) \in {"-", "+"}
        digits == IF signed THEN Tail(t) ELSE t
    IN IF Len(digits) = 0 \/ \E i \in 1..Len(digits) : ~IsDigit(digits[i])
       THEN [err |-> "ValueError", v |-> 0]
       ELSE [err |-> "ok",
             v |-> IF signed /\ Head(t) = "-" THEN 0 - DigitsToNat(digits)
                   ELSE DigitsToNat(digits)]

\* s[:e] of a Python list
SliceTo(s, e) ==
    IF e >= 0 THEN SubSeq(s, 1, IF e < Len(s) THEN e ELSE Len(s))
    ELSE SubSeq(s, 1, Len(s) + e)

\* s[i] of a Python list, for 0 <= i < len(s)
At(s, i) == s[i + 1]

SeqsUpTo(S, n) == UNION {[1..k -> S] : k \in 0..n}

---------------------------------------------------------------------------
(* Raw input *)

\* free-text lines: empty, plain, with leading and with trailing whitespace
Lines == {<< >>, <<"a">>, <<" ", "a">>, <<"a", " ">>}

\* texts handed to addCommentText and to the CommentUnit constructor
\* empty, one line, one line in blanks, two lines, a lone line break
Texts ==
    {<< >>, <<"a">>, <<" ", "a", " ">>, <<"a", "\n", " ", "a">>, <<"\n">>}

\* 'COMMENT'
FILE_KEY == <<"C", "O", "M", "M", "E", "N", "T">>

TagLine == FormatLeft(FILE_KEY)

\* count lines as written by the format (right-justified in the field), plus
\* an unpadded count, a negative count and a line that is no integer
CountLines ==
    {FormatRight(str(n)) : n \in 0..MaxCount}
        \cup {str(1), FormatRight(str(0 - 1)), FormatRight(<<"a">>)}

\* files holding a COMMENT block: lines of an earlier unit, the tag, the count
\* line, then free-text lines (fewer, as many or more than the count)
CommentFiles ==
    {pre \o <<TagLine, cnt>> \o body :
        pre \in SeqsUpTo({<<"a">>}, 1), cnt \in CountLines,
        body \in SeqsUpTo(Lines, MaxBody)}

---------------------------------------------------------------------------
(* CommentUnit *)

\* a slip that would count only the lines of this call
addCommentTextCountsCall(d, text) ==
    LET pieces == split(text)
    IN [no_of_rows |-> Some(Len(pieces)),
        data |-> d \o [i \in 1..Len(pieces) |-> strip(pieces[i])]]

\* CommentUnit.addCommentText(text): the new fields
addCommentText(d, text) ==
    LET pieces == split(text)
    IN [no_of_rows |-> Some(Len(d) + Len(pieces)),
        data |-> d \o [i \in 1..Len(pieces) |-> strip(pieces[i])]]

\* CommentUnit.__init__(text): the fields of the new unit
CommentUnitInit(text) ==
    IF Len(strip(text)) = 0
    THEN [no_of_rows |-> None, data |-> << >>]
    ELSE addCommentText(<< >>, text)

\* a slip that would keep the lines of the file as they are, unstripped
CommentReadVerbatim(d, n, raw, file_line) ==
    LET countAt == file_line + 1
    IN IF countAt >= Len(raw)
       THEN [err |-> "IndexError", data |-> d, no_of_rows |-> n, ret |-> None]
       ELSE
        LET parsed == int(strip(At(raw, countAt)))
        IN IF parsed.err # "ok"
           THEN [err |-> "ValueError", data |-> d, no_of_rows |-> n, ret |-> None]
           ELSE
            LET count == parsed.v
                first == countAt + 1
                avail == Len(raw) - first
                want == IF count > 0 THEN count ELSE 0
                got == IF want <= avail THEN want ELSE avail
                read == [i \in 1..got |-> At(raw, first + i - 1)]
            IN IF want > avail
               THEN [err |-> "IndexError", data |-> d \o read,
                     no_of_rows |-> Some(count), ret |-> None]
               ELSE [err |-> "ok", data |-> d \o read,
                     no_of_rows |-> Some(count), ret |-> Some(first + want - 1)]

\* CommentUnit.readUnitData(data, file_line): the outcome, the fields as the
\* call leaves them (also when it raises part-way) and the returned value
CommentReadUnitData(d, n, raw, file_line) ==
    LET countAt == file_line + 1
    IN IF countAt >= Len(raw)
       THEN [err |-> "IndexError", data |-> d, no_of_rows |-> n, ret |-> None]
       ELSE
        LET parsed == int(strip(At(raw, countAt)))
        IN IF parsed.err # "ok"
           THEN [err |-> "ValueError", data |-> d, no_of_rows |-> n, ret |-> None]
           ELSE
            LET count == parsed.v
                first == countAt + 1
                avail == Len(raw) - first
                want == IF count > 0 THEN count ELSE 0
                got == IF want <= avail THEN want ELSE avail
                read == [i \in 1..got |-> strip(At(raw, first + i - 1))]
            IN IF want > avail
               THEN [err |-> "IndexError", data |-> d \o read,
                     no_of_rows |-> Some(count), ret |-> None]
               ELSE [err |-> "ok", data |-> d \o read,
                     no_of_rows |-> Some(count), ret |-> Some(first + want - 1)]

\* a slip that would leave out the cut to no_of_rows + 2 lines
CommentGetDataUncut(d, n) ==
    IF IsNone(n) THEN [err |-> "AttributeError", out |-> None]
    ELSE [err |-> "ok",
          out |-> Some(<<FormatLeft(FILE_KEY), FormatRight(str(Val(n)))>> \o d)]

\* CommentUnit.getData(): the outcome and the returned lines
CommentGetData(d, n) ==
    IF IsNone(n) THEN [err |-> "AttributeError", out |-> None]
    ELSE
        LET full == <<FormatLeft(FILE_KEY), FormatRight(str(Val(n)))>> \o d
        IN [err |-> "ok",
            out |-> Some(IF Len(full) > Val(n) + 2
                         THEN SliceTo(full, Val(n) + 2) ELSE full)]

CommentInit ==
    /\ rawLines \in CommentFiles
    /\ \E text \in Texts :
        LET u == CommentUnitInit(text)
        IN /\ data = u.data
           /\ no_of_rows = u.no_of_rows
           /\ origin = IF Len(u.data) = 0 THEN "fresh" ELSE "text"
           /\ last = [op |-> "init", err |-> "ok", text |-> text]
    /\ head_data = << >>
    /\ output = None
    /\ row_data = << >>
    /\ py = 3
    /\ cursor = 0
    /\ owners = << >>
    /\ step = 0
    /\ heap = << >>
    /\ units = << >>
    /\ unit_type = "comment"

AddCommentText ==
    \E text \in Texts :
        \E u \in {addCommentText(data, text)} :
           /\ Len(u.data) <= MaxData
           /\ data' = u.data
           /\ no_of_rows' = u.no_of_rows
           /\ origin' = IF origin \in {"fresh", "text"} THEN "text" ELSE "mixed"
           /\ last' = [op |-> "addCommentText", err |-> "ok", text |-> text,
                       before |-> data]
           /\ output' = None
           /\ UNCHANGED <<rawLines, head_data, rowVars, loaderVars, copyVars, unit_type>>

CommentRead ==
    \E file_line \in 0..(Len(rawLines) - 1) :
        \E r \in {CommentReadUnitData(data, no_of_rows, rawLines, file_line)} :
           /\ Len(r.data) <= MaxData
           /\ data' = r.data
           /\ no_of_rows' = r.no_of_rows
           /\ origin' = IF origin = "fresh" /\ r.err = "ok" THEN "read" ELSE "mixed"
           /\ last' = [op |-> "readUnitData", err |-> r.err,
                       file_line |-> file_line, ret |-> r.ret, before |-> data]
           /\ output' = None
           /\ UNCHANGED <<rawLines, head_data, rowVars, loaderVars, copyVars, unit_type>>

CommentGet ==
    /\ output' = Some(CommentGetData(data, no_of_rows))
    /\ UNCHANGED <<rawLines, commentVars, head_data, last, rowVars, loaderVars, copyVars, unit_type>>

CommentNext == AddCommentText \/ CommentRead \/ CommentGet

SpecComment == CommentInit /\ [][CommentNext]_vars

---------------------------------------------------------------------------
(* CommentUnit: properties *)

\* the count written on the count line at Python index c + 1 of raw
CountAt(raw, c) == int(At(raw, c + 1)).v

\* a well-formed COMMENT block starts at Python index c of raw: the tag
\* left-justified in its field, a count N >= 0 right-justified in its field,
\* then N lines with no trailing whitespace
WellFormedAt(raw, c) ==
    /\ c + 1 < Len(raw)
    /\ At(raw, c) = TagLine
    /\ \E N \in 0..Len(raw) :
        /\ At(raw, c + 1) = FormatRight(str(N))
        /\ c + 1 + N < Len(raw)
        /\ \A i \in 1..N : rstrip(At(raw, c + 1 + i)) = At(raw, c + 1 + i)

\* the lines of the block that starts at Python index c of raw
BlockAt(raw, c) == SubSeq(raw, c + 1, c + 2 + CountAt(raw, c))

\* C2: a fresh CommentUnit that read a well-formed COMMENT block writes back
\* exactly the lines of that block (write(read(L)) = L).
CommentRoundTrip ==
    (/\ origin = "read"
     /\ ~IsNone(output)
     /\ WellFormedAt(rawLines, last.file_line))
    => Val(output) = [err |-> "ok",
                      out |-> Some(BlockAt(rawLines, last.file_line))]

\* the stripped pieces of a text, in order
Pieces(text) == [i \in 1..Len(split(text)) |-> strip(split(text)[i])]

\* C3: while content came only through addCommentText, the stored count is the
\* number of stored lines, each call appended its pieces in order, and getData
\* returns the tag, the count of lines right-justified in 10, then the lines.
CommentConsistency ==
    origin = "text" =>
        /\ no_of_rows = Some(Len(data))
        /\ last.op = "addCommentText" => data = last.before \o Pieces(last.text)
        /\ last.op = "init" => data = Pieces(last.text)
        /\ ~IsNone(output) =>
            /\ Val(output).err = "ok"
            /\ Len(Val(Val(output).out)) = Len(data) + 2
            /\ Val(Val(output).out) =
                <<TagLine, FormatRight(str(Len(data)))>> \o data

\* C3 witness: a second addCommentText call on a unit that already held text,
\* then getData
CommentConsistencyWitness ==
    /\ origin = "text"
    /\ last.op = "addCommentText"
    /\ Len(last.before) >= 1
    /\ Len(data) >= 3
    /\ ~IsNone(output)

---------------------------------------------------------------------------
(* UnknownUnit *)

\* AIsisUnit.readUnitData(data, file_line): head_data['all'] = data
AIsisUnitReadUnitData(head, d) ==
    [k \in (DOMAIN head) \cup {"all"} |-> IF k = "all" THEN d ELSE head[k]]

\* a slip that would normalise the lines on the way in, as CommentUnit does
UnknownReadStripped(head, d) ==
    AIsisUnitReadUnitData(head, [i \in 1..Len(d) |-> strip(d[i])])

\* UnknownUnit.readUnitData(data): head_data['all'] = data
UnknownReadUnitData(head, d) ==
    [k \in (DOMAIN head) \cup {"all"} |-> IF k = "all" THEN d ELSE head[k]]

\* UnknownUnit.getData(): head_data['all'], a KeyError before any read
UnknownGetData(head) ==
    IF "all" \in DOMAIN head
    THEN [err |-> "ok", out |-> Some(head["all"])]
    ELSE [err |-> "KeyError", out |-> None]

\* the sections a loader hands to an UnknownUnit: any lines, COMMENT tags and
\* count lines among them
UnknownLines == Lines \cup {TagLine, FormatRight(str(1))}

UnknownInit ==
    /\ rawLines \in SeqsUpTo(UnknownLines, MaxBody)
    /\ data = << >>
    /\ no_of_rows = None
    /\ head_data = << >>
    /\ output = None
    /\ origin = "fresh"
    /\ last = [op |-> "init", err |-> "ok"]
    /\ row_data = << >>
    /\ py = 3
    /\ cursor = 0
    /\ owners = << >>
    /\ step = 0
    /\ heap = << >>
    /\ units = << >>
    /\ unit_type = "unknown"

\* the section handed over: any run of lines of the file
Sections(raw) ==
    {SubSeq(raw, i, j) : i \in 1..(Len(raw) + 1), j \in 0..Len(raw)}

UnknownRead ==
    \E d \in Sections(rawLines) :
        /\ head_data' = UnknownReadUnitData(head_data, d)
        /\ last' = [op |-> "readUnitData", err |-> "ok", data |-> d]
        /\ output' = None
        /\ UNCHANGED <<rawLines, commentVars, rowVars, loaderVars, copyVars, unit_type>>

\* the inherited reader, called with a cursor it does not use
BaseRead ==
    \E d \in Sections(rawLines) :
        /\ head_data' = AIsisUnitReadUnitData(head_data, d)
        /\ last' = [op |-> "AIsisUnit.readUnitData", err |-> "ok", data |-> d]
        /\ output' = None
        /\ UNCHANGED <<rawLines, commentVars, rowVars, loaderVars, copyVars, unit_type>>

UnknownGet ==
    /\ output' = Some(UnknownGetData(head_data))
    /\ UNCHANGED <<rawLines, commentVars, head_data, last, rowVars, loaderVars, copyVars, unit_type>>

UnknownNext == UnknownRead \/ BaseRead \/ UnknownGet

SpecUnknown == UnknownInit /\ [][UnknownNext]_vars

---------------------------------------------------------------------------
(* UnknownUnit: properties *)

\* C5: getData called right after readUnitData returns the lines that were
\* read, each line as given, in the same order and number.
UnknownFidelity ==
    (last.op = "readUnitData" /\ ~IsNone(output))
    => Val(output) = [err |-> "ok", out |-> Some(last.data)]

\* C5 witness: a section with a line in blanks went in and came out
UnknownFidelityWitness ==
    /\ last.op = "readUnitData"
    /\ ~IsNone(output)
    /\ Len(last.data) >= 2
    /\ \E i \in 1..Len(last.data) : strip(last.data[i]) # last.data[i]

---------------------------------------------------------------------------
(* Row collections.  A row is known by its value in the ordering column    *)
(* (the chainage); a collection is the sequence of its rows.  The          *)
(* RowDataCollection and its column objects live outside this file.        *)

Values == (0 - 1)..MaxValue

\* RowDataCollection.numberOfRows()
numberOfRows(rows) == Len(rows)

\* data_obj._max: one past the last row of the column
DataObjMax(data_obj) == Len(data_obj)

\* whether data_obj[i] exists
DataObjHas(data_obj, i) == 0 <= i /\ i < Len(data_obj)

\* AIsisUnit._getAdjacentDataObjDetails(data_obj, value, index)
getAdjacentDataObjDetails(data_obj, value, index) ==
    LET idx == IF IsNone(index) THEN DataObjMax(data_obj) ELSE Val(index)
        none == [index |-> idx, prev_value |-> None, next_value |-> None]
    IN IF idx < 0 THEN [err |-> "ValueError"] @@ none
       ELSE IF idx > 0 /\ ~DataObjHas(data_obj, idx - 1)
       THEN [err |-> "IndexError"] @@ none
       ELSE IF idx < DataObjMax(data_obj) /\ ~DataObjHas(data_obj, idx + 1)
       THEN [err |-> "IndexError"] @@ none
       ELSE [err |-> "ok", index |-> idx,
             prev_value |-> IF idx > 0 THEN Some(At(data_obj, idx - 1)) ELSE None,
             next_value |-> IF idx < DataObjMax(data_obj)
                            THEN Some(At(data_obj, idx + 1)) ELSE None]

\* the truth value of an optional number in an if: None and 0 are false
Truthy(o) == ~IsNone(o) /\ Val(o) # 0

\* AIsisUnit.checkIncreases(data_obj, value, index): the exception raised, or ok
checkIncreases(data_obj, value, index) ==
    LET details == getAdjacentDataObjDetails(data_obj, value, index)
    IN IF details.err # "ok" THEN details.err
       ELSE IF Truthy(details.prev_value) /\ ~(value > Val(details.prev_value))
       THEN "ValueError"
       ELSE IF Truthy(details.next_value) /\ ~(value < Val(details.next_value))
       THEN "ValueError"
       ELSE "ok"

\* list.insert(i, value) for 0 <= i <= len
Insert(rows, i, value) ==
    SubSeq(rows, 1, i) \o <<value>> \o SubSeq(rows, i + 1, Len(rows))

\* del list[i] for 0 <= i < len
Remove(rows, i) == SubSeq(rows, 1, i) \o SubSeq(rows, i + 2, Len(rows))

\* RowDataCollection.addRow(row_vals, index): the update callback
\* (checkIncreases) runs on the ordering value, then the row is inserted
\* before index, or appended when index is None
CollectionAddRow(rows, value, index) ==
    LET e == checkIncreases(rows, value, index)
    IN IF e # "ok" THEN [err |-> e, rows |-> rows]
       ELSE [err |-> "ok",
             rows |-> IF IsNone(index) THEN Append(rows, value)
                      ELSE Insert(rows, Val(index), value)]

\* RowDataCollection.deleteRow(index): the row is deleted from the lists that
\* back the columns
CollectionDeleteRow(rows, index) ==
    IF 0 <= index /\ index < Len(rows)
    THEN [err |-> "ok", rows |-> Remove(rows, index)]
    ELSE IF index < 0 /\ 0 - index <= Len(rows)
    THEN [err |-> "ok", rows |-> Remove(rows, Len(rows) + index)]
    ELSE [err |-> "IndexError", rows |-> rows]

\* index >= n, as each interpreter evaluates it: Python 2 orders None below
\* every number, Python 3 raises TypeError
GreaterEqual(index, n, version) ==
    IF IsNone(index)
    THEN IF version = 2 THEN [err |-> "ok", v |-> FALSE]
         ELSE [err |-> "TypeError", v |-> FALSE]
    ELSE [err |-> "ok", v |-> Val(index) >= n]

\* AIsisUnit.addRow(row_vals, rowdata_key='main', index=None)
AIsisUnitAddRow(rd, version, value, index) ==
    IF "main" \notin DOMAIN rd THEN [err |-> "KeyError", row_data |-> rd]
    ELSE
        LET ge == GreaterEqual(index, numberOfRows(rd["main"]), version)
        IN IF ge.err # "ok" THEN [err |-> ge.err, row_data |-> rd]
           ELSE
            LET r == CollectionAddRow(rd["main"], value,
                                      IF ge.v THEN None ELSE index)
            IN [err |-> r.err, row_data |-> [rd EXCEPT !["main"] = r.rows]]

\* a slip that would leave out the lower bound of the index check
DeleteRowNoLowerBound(rd, index) ==
    IF "main" \notin DOMAIN rd THEN [err |-> "KeyError", row_data |-> rd]
    ELSE IF index >= numberOfRows(rd["main"])
    THEN [err |-> "IndexError", row_data |-> rd]
    ELSE LET r == CollectionDeleteRow(rd["main"], index)
         IN [err |-> r.err, row_data |-> [rd EXCEPT !["main"] = r.rows]]

\* AIsisUnit.deleteRow(index, rowdata_key='main')
AIsisUnitDeleteRow(rd, index) ==
    IF index < 0 THEN [err |-> "IndexError", row_data |-> rd]
    ELSE IF "main" \notin DOMAIN rd THEN [err |-> "KeyError", row_data |-> rd]
    ELSE IF index >= numberOfRows(rd["main"])
    THEN [err |-> "IndexError", row_data |-> rd]
    ELSE LET r == CollectionDeleteRow(rd["main"], index)
         IN [err |-> r.err, row_data |-> [rd EXCEPT !["main"] = r.rows]]

\* AIsisUnit.updateRow(row_vals, index=None, rowdata_key='main'): past the
\* index check the body reads collection_name, a name bound nowhere
AIsisUnitUpdateRow(rd, version, value, index) ==
    IF "main" \notin DOMAIN rd THEN [err |-> "KeyError", row_data |-> rd]
    ELSE
        LET ge == GreaterEqual(index, numberOfRows(rd["main"]), version)
        IN IF ge.err # "ok" THEN [err |-> ge.err, row_data |-> rd]
           ELSE IF ge.v THEN [err |-> "IndexError", row_data |-> rd]
           ELSE [err |-> "NameError", row_data |-> rd]

\* strictly increasing sequences of at most n ordering values: the rows of a
\* well-formed file
IncreasingRows(n) ==
    {r \in SeqsUpTo(Values, n) : \A i \in 1..(Len(r) - 1) : r[i] < r[i + 1]}

\* the index arguments: omitted, before the first row, within and past the rows
Indexes == {None} \cup {Some(i) : i \in (0 - 1)..MaxRows}

RowsInit ==
    /\ row_data \in {<< >>} \cup {[main |-> r] : r \in IncreasingRows(MaxRows)}
    /\ py \in {2, 3}
    /\ last = [op |-> "init", err |-> "ok"]
    /\ rawLines = << >>
    /\ data = << >>
    /\ no_of_rows = None
    /\ origin = "fresh"
    /\ head_data = << >>
    /\ output = None
    /\ cursor = 0
    /\ owners = << >>
    /\ step = 0
    /\ heap = << >>
    /\ units = << >>
    /\ unit_type = "Unknown"

Rows(rd) == IF "main" \in DOMAIN rd THEN rd["main"] ELSE << >>

rowsFrame == <<py, rawLines, commentVars, head_data, output, loaderVars, copyVars, unit_type>>

AddRowStep(value, index) ==
    \E r \in {AIsisUnitAddRow(row_data, py, value, index)} :
       /\ Len(Rows(r.row_data)) <= MaxRows
       /\ row_data' = r.row_data
       /\ last' = [op |-> "addRow", err |-> r.err]
       /\ UNCHANGED rowsFrame

AddRow == \E value \in Values, index \in Indexes : AddRowStep(value, index)

DeleteRowStep(index) ==
    \E r \in {AIsisUnitDeleteRow(row_data, index)} :
       /\ row_data' = r.row_data
       /\ last' = [op |-> "deleteRow", err |-> r.err]
       /\ UNCHANGED rowsFrame

DeleteRow == \E index \in (0 - 1)..MaxRows : DeleteRowStep(index)

UpdateRowStep(value, index) ==
    \E r \in {AIsisUnitUpdateRow(row_data, py, value, index)} :
       /\ row_data' = r.row_data
       /\ last' = [op |-> "updateRow", err |-> r.err]
       /\ UNCHANGED rowsFrame

UpdateRow == \E value \in Values, index \in Indexes : UpdateRowStep(value, index)

RowsNext == AddRow \/ DeleteRow \/ UpdateRow

SpecRows == RowsInit /\ [][RowsNext]_vars

---------------------------------------------------------------------------
(* Row operations: properties *)

HasRows == "main" \in DOMAIN row_data

\* C6: addRow with an index inserts the row before that position (at the end
\* when the index is past the rows) exactly when the value is strictly above
\* the value that will precede it and strictly below the value that will
\* follow it; otherwise it raises ValueError and the collection is unchanged.
AddRowOrdering ==
    [][\A value \in Values, i \in 0..MaxRows :
        (HasRows /\ AddRowStep(value, Some(i))) =>
            LET rows == row_data["main"]
                n == Len(rows)
                at == IF i >= n THEN n ELSE i
                fits == /\ (at = 0 \/ rows[at] < value)
                        /\ (at = n \/ value < rows[at + 1])
            IN IF fits
               THEN last'.err = "ok" /\ row_data'["main"] = Insert(rows, at, value)
               ELSE last'.err = "ValueError" /\ row_data' = row_data]_vars

\* C7: updateRow with 0 <= index < rowCount replaces the row at index in
\* place when the value lies strictly between its neighbours, and raises
\* ValueError, changing nothing, when it does not.
UpdateRowReplaces ==
    [][\A value \in Values, i \in 0..MaxRows :
        (HasRows /\ i < Len(Rows(row_data)) /\ UpdateRowStep(value, Some(i))) =>
            LET rows == row_data["main"]
                n == Len(rows)
                fits == /\ (i = 0 \/ rows[i] < value)
                        /\ (i = n - 1 \/ value < rows[i + 2])
            IN IF fits
               THEN /\ last'.err = "ok"
                    /\ row_data'["main"] = [rows EXCEPT ![i + 1] = value]
               ELSE last'.err = "ValueError" /\ row_data' = row_data]_vars

\* C8: addRow without an index ends as addRow with any index at or past the
\* row count does from the same state: same outcome, same rows.
AppendSemantics ==
    [][\A value \in Values :
        (HasRows /\ AddRowStep(value, None)) =>
            \A i \in Len(Rows(row_data))..MaxRows :
                LET r == AIsisUnitAddRow(row_data, py, value, Some(i))
                IN last'.err = r.err /\ row_data' = r.row_data]_vars

\* C9: deleteRow raises IndexError and changes nothing when index < 0 or
\* index >= rowCount; otherwise it removes the row at index: one row fewer,
\* the others in their order.
DeleteRowContract ==
    [][\A index \in (0 - 1)..MaxRows :
        (HasRows /\ DeleteRowStep(index)) =>
            LET rows == row_data["main"]
                n == Len(rows)
            IN IF index < 0 \/ index >= n
               THEN last'.err = "IndexError" /\ row_data' = row_data
               ELSE /\ last'.err = "ok"
                    /\ Len(row_data'["main"]) = n - 1
                    /\ \A j \in 1..(n - 1) :
                        row_data'["main"][j] =
                            IF j <= index THEN rows[j] ELSE rows[j + 1]]_vars

\* C9 witness: a deleteRow call removed a row and left two or more
DeleteRowWitness ==
    /\ last.op = "deleteRow"
    /\ last.err = "ok"
    /\ Len(Rows(row_data)) >= 2

---------------------------------------------------------------------------
(* HeaderUnit *)

\* s[a:b] of a Python string
Slice(s, a, b) == SubSeq(s, a + 1, IF b < Len(s) THEN b ELSE Len(s))

\* the head_data mapping HeaderUnit.readUnitData builds: per field, the text
\* its HeadDataItem is built from
HeaderFields(unit_data) ==
    [name |-> strip(At(unit_data, 0)),
     revision |-> strip(At(unit_data, 1)),
     node_count |-> strip(Slice(At(unit_data, 2), 0, 10)),
     fr_lower |-> strip(Slice(At(unit_data, 2), 10, 20)),
     fr_upper |-> strip(Slice(At(unit_data, 2), 20, 30)),
     min_depth |-> strip(Slice(At(unit_data, 2), 30, 40)),
     direct_method |-> strip(Slice(At(unit_data, 2), 40, 50)),
     unknown |-> strip(Slice(At(unit_data, 2), 50, 60)),
     water_temp |-> strip(Slice(At(unit_data, 3), 0, 10)),
     flow |-> strip(Slice(At(unit_data, 3), 10, 20)),
     head |-> strip(Slice(At(unit_data, 3), 20, 30)),
     math_damp |-> strip(Slice(At(unit_data, 3), 30, 40)),
     pivot |-> strip(Slice(At(unit_data, 3), 40, 50)),
     relax |-> strip(Slice(At(unit_data, 3), 50, 60)),
     dummy |-> strip(Slice(At(unit_data, 3), 60, 70)),
     roughness |-> strip(At(unit_data, 5))]

\* a slip that would count the header one line short
HeaderReadShort(unit_data, file_line) ==
    IF Len(unit_data) < 6
    THEN [err |-> "IndexError", head_data |-> << >>, ret |-> None]
    ELSE [err |-> "ok", head_data |-> HeaderFields(unit_data),
          ret |-> Some(file_line + 6)]

\* HeaderUnit.readUnitData(unit_data, file_line): the fields are cut from lines
\* 0, 1, 2, 3 and 5 of unit_data, wherever file_line points
HeaderReadUnitData(unit_data, file_line) ==
    IF Len(unit_data) < 6
    THEN [err |-> "IndexError", head_data |-> << >>, ret |-> None]
    ELSE [err |-> "ok", head_data |-> HeaderFields(unit_data),
          ret |-> Some(file_line + 7)]

---------------------------------------------------------------------------
(* A loader: the sequential scan that hands each unit the raw lines and a  *)
(* cursor.  It lives outside this file; it is modelled to see which lines  *)
(* the units' return values make it give to which unit.                    *)

HeaderLines == 7

RECURSIVE Concat(_)
Concat(ss) == IF Len(ss) = 0 THEN << >> ELSE Head(ss) \o Concat(Tail(ss))

\* a 7-line HEADER block: title, revision, two lines of width-10 fields,
\* 'RAD FILE', the roughness file and 'END GENERAL'
HeaderBlock ==
    << <<"t">>,
       <<"#", "R", "E", "V", "I", "S", "I", "O", "N", "#", "1">>,
       Concat([i \in 1..6 |-> FormatRight(str(i))]),
       Concat([i \in 1..7 |-> FormatRight(str(i))]),
       <<"R", "A", "D", " ", "F", "I", "L", "E">>,
       << >>,
       <<"E", "N", "D", " ", "G", "E", "N", "E", "R", "A", "L">> >>

\* a COMMENT block of n lines
CommentBlock(n) == <<TagLine, FormatRight(str(n))>> \o [i \in 1..n |-> <<"a">>]

\* the blocks that follow the header: nothing, a COMMENT block, or a run of
\* lines no unit claims
LoaderBlocks ==
    {<< >>} \cup {CommentBlock(n) : n \in 0..MaxCount}
            \cup {[i \in 1..k |-> <<"a">>] : k \in 1..MaxBody}

LoaderFiles ==
    {h \o b1 \o b2 \o b3 :
        h \in {<< >>, HeaderBlock}, b1 \in LoaderBlocks, b2 \in LoaderBlocks,
        b3 \in LoaderBlocks}

LoaderInit ==
    /\ rawLines \in LoaderFiles
    /\ cursor = 0
    /\ owners = [i \in 1..Len(rawLines) |-> 0]
    /\ step \in {0, 1}
    /\ heap = << >>
    /\ units = << >>
    /\ unit_type = "Unknown"
    /\ last = [op |-> "init", err |-> "ok"]
    /\ data = << >>
    /\ no_of_rows = None
    /\ origin = "fresh"
    /\ head_data = << >>
    /\ output = None
    /\ row_data = << >>
    /\ py = 3

\* the lines with Python indices from..to given to one more unit
Give(own, from, to) ==
    [i \in 1..Len(own) |-> IF from + 1 <= i /\ i <= to + 1 THEN own[i] + 1 ELSE own[i]]

HasHeader(raw) == Len(raw) >= HeaderLines /\ SubSeq(raw, 1, HeaderLines) = HeaderBlock

IsTag(line) == strip(line) = FILE_KEY

\* the file opens with the header: a HeaderUnit reads it
LoadHeader ==
    /\ cursor = 0
    /\ HasHeader(rawLines)
    /\ \E r \in {HeaderReadUnitData(rawLines, cursor)} :
        /\ head_data' = r.head_data
        /\ last' = [op |-> "HeaderUnit.readUnitData", err |-> r.err,
                    file_line |-> cursor, ret |-> r.ret,
                    lastLine |-> cursor + HeaderLines - 1]
        /\ owners' = Give(owners, cursor, cursor + HeaderLines - 1)
        /\ cursor' = Val(r.ret)
    /\ data' = << >>
    /\ no_of_rows' = None
    /\ UNCHANGED <<rawLines, origin, output, rowVars, step, copyVars, unit_type>>

\* the cursor is on a COMMENT tag: a new CommentUnit reads the block
LoadComment ==
    /\ cursor < Len(rawLines)
    /\ ~(cursor = 0 /\ HasHeader(rawLines))
    /\ IsTag(At(rawLines, cursor))
    /\ \E r \in {CommentReadUnitData(<< >>, None, rawLines, cursor)} :
        /\ r.err = "ok"
        /\ data' = r.data
        /\ no_of_rows' = r.no_of_rows
        /\ last' = [op |-> "CommentUnit.readUnitData", err |-> r.err,
                    file_line |-> cursor, ret |-> r.ret,
                    lastLine |-> cursor + 1 + Len(r.data)]
        /\ owners' = Give(owners, cursor, cursor + 1 + Len(r.data))
        /\ cursor' = Val(r.ret) + step
    /\ head_data' = << >>
    /\ UNCHANGED <<rawLines, origin, output, rowVars, step, copyVars, unit_type>>

\* the lines from the cursor up to the next tag or the end of the file
RECURSIVE UnknownRun(_, _)
UnknownRun(raw, c) ==
    IF c >= Len(raw) \/ IsTag(At(raw, c)) THEN 0 ELSE 1 + UnknownRun(raw, c + 1)

\* no unit claims the line at the cursor: the lines up to the next tag go to
\* an UnknownUnit, whose readUnitData takes no cursor and returns none
LoadUnknown ==
    /\ cursor < Len(rawLines)
    /\ ~(cursor = 0 /\ HasHeader(rawLines))
    /\ ~IsTag(At(rawLines, cursor))
    /\ \E k \in {UnknownRun(rawLines, cursor)} :
        /\ head_data' =
            UnknownReadUnitData(<< >>, SubSeq(rawLines, cursor + 1, cursor + k))
        /\ last' = [op |-> "UnknownUnit.readUnitData", err |-> "ok",
                    file_line |-> cursor, ret |-> None,
                    lastLine |-> cursor + k - 1]
        /\ owners' = Give(owners, cursor, cursor + k - 1)
        /\ cursor' = cursor + k
    /\ data' = << >>
    /\ no_of_rows' = None
    /\ UNCHANGED <<rawLines, origin, output, rowVars, step, copyVars, unit_type>>

LoaderNext == LoadHeader \/ LoadComment \/ LoadUnknown

SpecLoader == LoaderInit /\ [][LoaderNext]_vars

---------------------------------------------------------------------------
(* Loader: properties *)

\* every line before the cursor was given to exactly one unit, no line at or
\* after it to any
EachLineOnce ==
    \A i \in 1..Len(rawLines) : owners[i] = IF i <= cursor THEN 1 ELSE 0

\* C1: every readUnitData returns the index of the line after the last line
\* the unit consumed, so the loader that passes the value on unchanged gives
\* every line to exactly one unit.
ReadReturnsNextLine ==
    step = 0 =>
        /\ last.op # "init" => last.ret = Some(last.lastLine + 1)
        /\ EachLineOnce

\* C1, amended: HeaderUnit.readUnitData returns file_line + 7, the index of the
\* line after its 7 lines; CommentUnit.readUnitData returns the index of the
\* last line it consumed; UnknownUnit.readUnitData returns no cursor.  The
\* loader that moves one past the value a CommentUnit returns gives every line
\* to exactly one unit.
ReadReturnValues ==
    /\ last.op = "HeaderUnit.readUnitData" =>
        /\ last.ret = Some(last.file_line + 7)
        /\ last.ret = Some(last.lastLine + 1)
    /\ last.op = "CommentUnit.readUnitData" =>
        /\ last.ret = Some(last.file_line + 1 + Val(no_of_rows))
        /\ last.ret = Some(last.lastLine)
    /\ last.op = "UnknownUnit.readUnitData" => last.ret = None
    /\ step = 1 => EachLineOnce

\* C1 witness: a whole file with a header was read, a two-line COMMENT block
\* last, by the loader that moves one past a CommentUnit's value
ReadReturnValuesWitness ==
    /\ step = 1
    /\ HasHeader(rawLines)
    /\ cursor = Len(rawLines)
    /\ last.op = "CommentUnit.readUnitData"
    /\ last.file_line > HeaderLines
    /\ no_of_rows = Some(2)

---------------------------------------------------------------------------
(* AIsisUnit.copy: units as references into a heap of mutable objects *)

\* the unit's attribute dictionaries, read through its references
Deref(h, u) == [row_data |-> h[u.row_data], head_data |-> h[u.head_data]]

\* a slip that would copy the unit object alone (copy.copy): the new unit
\* holds the same two dictionaries
AIsisUnitCopyShallow(h, u) == [heap |-> h, unit |-> u]

\* AIsisUnit.copy(): copy.deepcopy(self), every object reachable from the unit
\* is built anew and the new unit refers to the new objects
AIsisUnitCopy(h, u) ==
    [heap |-> h \o <<h[u.row_data], h[u.head_data]>>,
     unit |-> [row_data |-> Len(h) + 1, head_data |-> Len(h) + 2]]

CopyInit ==
    /\ heap \in {<<rd, << >>>> :
                  rd \in {<< >>} \cup {[main |-> r] : r \in IncreasingRows(MaxCopyRows)}}
    /\ units = [self |-> [row_data |-> 1, head_data |-> 2]]
    /\ py \in {2, 3}
    /\ last = [op |-> "init", err |-> "ok", unit |-> "self"]
    /\ rawLines = << >>
    /\ data = << >>
    /\ no_of_rows = None
    /\ origin = "fresh"
    /\ head_data = << >>
    /\ output = None
    /\ row_data = << >>
    /\ cursor = 0
    /\ owners = << >>
    /\ step = 0
    /\ unit_type = "Unknown"

copyFrame == <<py, rawLines, commentVars, head_data, output, row_data,
               loaderVars, unit_type>>

\* b = a.copy()
Copy ==
    /\ DOMAIN units = {"self"}
    /\ \E r \in {AIsisUnitCopy(heap, units["self"])} :
          /\ heap' = r.heap
          /\ units' = [n \in {"self", "copy"} |->
                         IF n = "self" THEN units["self"] ELSE r.unit]
    /\ last' = [op |-> "copy", err |-> "ok", unit |-> "self"]
    /\ UNCHANGED copyFrame

\* the call leaves the unit n with the row_data r.row_data
RowCall(n, op, result) ==
    \E r \in {result} :
       /\ Len(Rows(r.row_data)) <= MaxCopyRows
       /\ heap' = [heap EXCEPT ![units[n].row_data] = r.row_data]
       /\ last' = [op |-> op, err |-> r.err, unit |-> n]
       /\ UNCHANGED <<units, copyFrame>>

CopyAddRowStep(n, value, index) ==
    RowCall(n, "addRow",
            AIsisUnitAddRow(heap[units[n].row_data], py, value, index))

CopyDeleteRowStep(n, index) ==
    RowCall(n, "deleteRow",
            AIsisUnitDeleteRow(heap[units[n].row_data], index))

CopyUpdateRowStep(n, value, index) ==
    RowCall(n, "updateRow",
            AIsisUnitUpdateRow(heap[units[n].row_data], py, value, index))

\* readUnitData of the base class, the header/content mutation every unit has
CopyReadStep(n, d) ==
    /\ heap' = [heap EXCEPT ![units[n].head_data] =
                               AIsisUnitReadUnitData(heap[units[n].head_data], d)]
    /\ last' = [op |-> "readUnitData", err |-> "ok", unit |-> n]
    /\ UNCHANGED <<units, copyFrame>>

CopyIndexes == {None} \cup {Some(i) : i \in (0 - 1)..MaxCopyRows}

CopyContents == {<<TagLine>>, <<<<"a">>, <<" ", "a">>>>}

CopyAddRow ==
    \E n \in DOMAIN units, value \in Values, index \in CopyIndexes :
        CopyAddRowStep(n, value, index)

CopyDeleteRow ==
    \E n \in DOMAIN units, index \in (0 - 1)..MaxCopyRows :
        CopyDeleteRowStep(n, index)

CopyUpdateRow ==
    \E n \in DOMAIN units, value \in Values, index \in CopyIndexes :
        CopyUpdateRowStep(n, value, index)

CopyRead == \E n \in DOMAIN units, d \in CopyContents : CopyReadStep(n, d)

CopyNext == Copy \/ CopyAddRow \/ CopyDeleteRow \/ CopyUpdateRow \/ CopyRead

SpecCopy == CopyInit /\ [][CopyNext]_vars

---------------------------------------------------------------------------
(* AIsisUnit.copy: properties *)

\* C10: after b = a.copy(), b starts with a's contents, and no addRow,
\* updateRow, deleteRow or content mutation applied to one of the two units
\* changes the row_data or head_data read through the other.
CopyIndependence ==
    [][/\ last'.op = "copy" =>
             /\ Deref(heap', units'["copy"]) = Deref(heap, units["self"])
             /\ Deref(heap', units'["self"]) = Deref(heap, units["self"])
       /\ \A m \in DOMAIN units :
             m # last'.unit => Deref(heap', units'[m]) = Deref(heap, units[m])
      ]_vars

\* C10 witness: rows and contents of the original and of its copy have both
\* moved away from what they shared at the copy, and from each other
CopyIndependenceWitness ==
    /\ DOMAIN units = {"self", "copy"}
    /\ Len(Rows(heap[units["self"].row_data])) = 1
    /\ Len(Rows(heap[units["copy"].row_data])) = 0
    /\ "main" \in DOMAIN heap[units["copy"].row_data]
    /\ "all" \in DOMAIN heap[units["self"].head_data]
    /\ "all" \in DOMAIN heap[units["copy"].head_data]
    /\ heap[units["self"].head_data] # heap[units["copy"].head_data]

---------------------------------------------------------------------------
(* Row accessors of units that hold no rows *)

\* AIsisUnit.hasRowData: not self.row_data is true of the empty mapping
hasRowData(rd) == DOMAIN rd # {}

\* self.has_datarows: HeaderUnit sets it False, CommentUnit sets it True, the
\* base class and UnknownUnit never set it
has_datarows(type) ==
    IF type = "header" THEN Some(FALSE)
    ELSE IF type = "comment" THEN Some(TRUE)
    ELSE None

\* the keys asked for: the ordering column of the collection, and a key no
\* collection has
OrderingKey == "chainage"
RowKeys == {OrderingKey, "nokey"}

\* RowDataCollection.getDataObject(key)
getDataObject(rows, key) ==
    IF key = OrderingKey THEN [err |-> "ok", returned |-> "DataObject"]
    ELSE [err |-> "KeyError", returned |-> "nothing"]

\* AIsisUnit.rowDataType(key, rowdata_key='main'); rowDataTypeAsList has the
\* same branches and returns the values as a list
AIsisUnitRowDataType(type, rd, key, returns) ==
    IF IsNone(has_datarows(type))
    THEN [err |-> "AttributeError", returned |-> "nothing"]
    ELSE IF ~Val(has_datarows(type)) THEN [err |-> "ok", returned |-> "False"]
    ELSE IF "main" \notin DOMAIN rd
    THEN [err |-> "KeyError", returned |-> "nothing"]
    ELSE IF getDataObject(rd["main"], key).err # "ok"
    THEN [err |-> "KeyError", returned |-> "nothing"]
    ELSE [err |-> "ok", returned |-> returns]

\* AIsisUnit.row(index, rowdata_key='main')
AIsisUnitRow(rd, index) ==
    IF "main" \notin DOMAIN rd
    THEN [err |-> "KeyError", returned |-> "nothing"]
    ELSE IF ~DataObjHas(rd["main"], index)
    THEN [err |-> "IndexError", returned |-> "nothing"]
    ELSE [err |-> "ok", returned |-> "dict"]

\* a unit of one of the three classes, as its constructor leaves row_data
AccessorsInit ==
    /\ unit_type \in {"header", "comment", "unknown"}
    /\ row_data = << >>
    /\ py \in {2, 3}
    /\ last = [op |-> "init", err |-> "ok", returned |-> "nothing"]
    /\ rawLines = << >>
    /\ data = << >>
    /\ no_of_rows = None
    /\ origin = "fresh"
    /\ head_data = << >>
    /\ output = None
    /\ cursor = 0
    /\ owners = << >>
    /\ step = 0
    /\ heap = << >>
    /\ units = << >>

accessorsFrame == <<py, rawLines, commentVars, head_data, output, loaderVars,
                    copyVars, unit_type>>

\* the call ends with outcome r, which for addRow, deleteRow and updateRow
\* carries the row_data the call leaves
AccessorCall(op, args, r, rd) ==
    /\ row_data' = rd
    /\ last' = [op |-> op, err |-> r.err, returned |-> r.returned, args |-> args]
    /\ UNCHANGED accessorsFrame

\* addRow, deleteRow and updateRow have no return statement
Returning(r) ==
    [err |-> r.err, returned |-> IF r.err = "ok" THEN "None" ELSE "nothing"]

RowDataType ==
    \E key \in RowKeys :
        \E r \in {AIsisUnitRowDataType(unit_type, row_data, key, "DataObject")} :
            AccessorCall("rowDataType", <<key>>, r, row_data)

RowDataTypeAsList ==
    \E key \in RowKeys :
        \E r \in {AIsisUnitRowDataType(unit_type, row_data, key, "list")} :
            AccessorCall("rowDataTypeAsList", <<key>>, r, row_data)

Row ==
    \E index \in (0 - 1)..MaxRows :
        \E r \in {AIsisUnitRow(row_data, index)} :
            AccessorCall("row", <<index>>, r, row_data)

AccessorAddRow ==
    \E value \in Values, index \in Indexes :
        \E r \in {AIsisUnitAddRow(row_data, py, value, index)} :
            AccessorCall("addRow", <<value, index>>, Returning(r), r.row_data)

AccessorDeleteRow ==
    \E index \in (0 - 1)..MaxRows :
        \E r \in {AIsisUnitDeleteRow(row_data, index)} :
            AccessorCall("deleteRow", <<index>>, Returning(r), r.row_data)

AccessorUpdateRow ==
    \E value \in Values, index \in Indexes :
        \E r \in {AIsisUnitUpdateRow(row_data, py, value, index)} :
            AccessorCall("updateRow", <<value, index>>, Returning(r), r.row_data)

AccessorsNext ==
    \/ RowDataType \/ RowDataTypeAsList \/ Row
    \/ AccessorAddRow \/ AccessorDeleteRow \/ AccessorUpdateRow

SpecAccessors == AccessorsInit /\ [][AccessorsNext]_vars

---------------------------------------------------------------------------
(* Row accessors: properties *)

RowAccessors ==
    {"rowDataType", "rowDataTypeAsList", "row", "addRow", "deleteRow",
     "updateRow"}

\* C11: every row accessor called on a unit whose row_data is empty raises,
\* never returning a value, a condition that is neither the KeyError of an
\* unknown key nor the IndexError of an index out of range, and the same
\* condition whichever accessor is called.
NotApplicableSignal ==
    [][(~hasRowData(row_data) /\ last'.op \in RowAccessors) =>
          /\ last'.err \notin {"ok", "KeyError", "IndexError"}
          /\ last.op \in RowAccessors => last'.err = last.err]_vars

---------------------------------------------------------------------------
(* CommentUnit: the emitted block *)

\* getData called on a unit whose count is n and whose n is below the number
\* of stored lines returns the tag, the count line and the first n stored
\* lines, n + 2 lines in all, and leaves the unit as it was
CutTo(n) ==
    /\ Val(output').err = "ok"
    /\ Len(Val(Val(output').out)) = n + 2
    /\ Val(Val(output').out) =
          <<TagLine, FormatRight(str(n))>> \o SubSeq(data, 1, n)
    /\ data' = data
    /\ no_of_rows' = no_of_rows

---------------------------------------------------------------------------
(* HeaderUnit.getData *)

\* key_order of HeaderUnit.getData
key_order ==
    <<"name", "revision", "node_count", "fr_lower", "fr_upper", "min_depth",
      "direct_method", "unknown", "water_temp", "flow", "head", "math_damp",
      "pivot", "relax", "dummy">>

\* the keys as a mapping that sorts them would hand them out
sorted_keys ==
    <<"direct_method", "dummy", "flow", "fr_lower", "fr_upper", "head",
      "math_damp", "min_depth", "name", "node_count", "pivot", "relax",
      "revision", "unknown", "water_temp">>

\* the line of the header block a field is declared on (third argument of its
\* HeadDataItem)
LineNo(k) ==
    IF k = "name" THEN 0
    ELSE IF k = "revision" THEN 1
    ELSE IF k \in {"node_count", "fr_lower", "fr_upper", "min_depth",
                   "direct_method", "unknown"} THEN 2
    ELSE IF k = "roughness" THEN 5
    ELSE 3

\* the field closes its line: the field written after it is declared on
\* another line
EndsLine(k) ==
    \E i \in 1..(Len(key_order) - 1) :
        key_order[i] = k /\ LineNo(key_order[i + 1]) # LineNo(k)

\* the field's text under its format string: '' for the name, '{:>10}' for
\* every other field
Formatted(head, k) == IF k = "name" THEN head[k] ELSE FormatRight(head[k])

\* HeadDataItem.format(line_break): the formatted text, closed by a line break
\* when asked for one and the field closes its line
HeadDataItemFormat(head, k, line_break) ==
    Formatted(head, k)
        \o (IF line_break /\ EndsLine(k) THEN <<"\n">> ELSE << >>)

RadFile == <<"R", "A", "D", " ", "F", "I", "L", "E">>
EndGeneral == <<"E", "N", "D", " ", "G", "E", "N", "E", "R", "A", "L">>

\* a slip that would walk the mapping instead of key_order
HeaderGetDataMappingOrder(head) ==
    IF \E k \in {"name", "roughness"} : k \notin DOMAIN head
    THEN [err |-> "KeyError", out |-> None]
    ELSE [err |-> "ok",
          out |-> Some(split(Concat([i \in 1..Len(sorted_keys) |->
                          HeadDataItemFormat(head, sorted_keys[i], TRUE)]))
                       \o <<RadFile,
                            HeadDataItemFormat(head, "roughness", FALSE),
                            EndGeneral>>)]

\* HeaderUnit.getData(): head_data is {} until readUnitData filled it with all
\* sixteen fields
HeaderGetData(head) ==
    IF \E k \in {"name", "roughness"} : k \notin DOMAIN head
    THEN [err |-> "KeyError", out |-> None]
    ELSE [err |-> "ok",
          out |-> Some(split(Concat([i \in 1..Len(key_order) |->
                          HeadDataItemFormat(head, key_order[i], TRUE)]))
                       \o <<RadFile,
                            HeadDataItemFormat(head, "roughness", FALSE),
                            EndGeneral>>)]

\* header blocks: a plain or padded title, full or short field lines, an empty
\* or named roughness file, and blocks cut short after 5 or 6 lines
HeaderFiles ==
    {SubSeq(<<title, HeaderBlock[2], l2, l3, RadFile, rough, EndGeneral>>, 1, n) :
        title \in {<<"t">>, <<" ", "t", " ">>},
        l2 \in {HeaderBlock[3], FormatRight(str(1)) \o FormatRight(str(2))},
        l3 \in {HeaderBlock[4], << >>},
        rough \in {<< >>, <<"r">>},
        n \in 5..HeaderLines}

HeaderInit ==
    /\ rawLines \in HeaderFiles
    /\ unit_type = "header"
    /\ head_data = << >>
    /\ output = None
    /\ last = [op |-> "init", err |-> "ok"]
    /\ data = << >>
    /\ no_of_rows = None
    /\ origin = "fresh"
    /\ row_data = << >>
    /\ py = 3
    /\ cursor = 0
    /\ owners = << >>
    /\ step = 0
    /\ heap = << >>
    /\ units = << >>

headerFrame == <<rawLines, commentVars, rowVars, loaderVars, copyVars,
                 unit_type>>

\* readUnitData(rawLines, file_line): the mapping is assigned once all sixteen
\* fields were built
HeaderRead ==
    \E file_line \in {0, 1} :
        \E r \in {HeaderReadUnitData(rawLines, file_line)} :
           /\ head_data' = IF r.err = "ok" THEN r.head_data ELSE head_data
           /\ last' = [op |-> "HeaderUnit.readUnitData", err |-> r.err,
                       file_line |-> file_line, ret |-> r.ret]
           /\ output' = None
           /\ UNCHANGED headerFrame

HeaderGet ==
    /\ output' = Some(HeaderGetData(head_data))
    /\ UNCHANGED <<head_data, last, headerFrame>>

HeaderNext == HeaderRead \/ HeaderGet

SpecHeader == HeaderInit /\ [][HeaderNext]_vars

---------------------------------------------------------------------------
(* HeaderUnit.getData: properties *)

\* C13: after a successful readUnitData, getData emits the fields in the
\* declared key order: the lines before the last three, put end to end, are the
\* formatted fields name, revision, node_count, ..., dummy in that order; the
\* last three lines are 'RAD FILE', the formatted roughness and 'END GENERAL'.
HeaderOutputOrder ==
    (/\ last.op = "HeaderUnit.readUnitData"
     /\ last.err = "ok"
     /\ ~IsNone(output))
    => /\ Val(output).err = "ok"
       /\ LET out == Val(Val(output).out)
              n == Len(out)
          IN /\ n > 3
             /\ Concat(SubSeq(out, 1, n - 3)) =
                   Concat([i \in 1..Len(key_order) |->
                              Formatted(head_data, key_order[i])])
             /\ out[n - 2] = RadFile
             /\ out[n - 1] = FormatRight(head_data["roughness"])
             /\ out[n] = EndGeneral

\* C13 witness: getData after the read of a full header block whose fields
\* all differ
HeaderOutputWitness ==
    /\ last.op = "HeaderUnit.readUnitData"
    /\ last.err = "ok"
    /\ ~IsNone(output)
    /\ Len(rawLines) = HeaderLines
    /\ head_data["node_count"] = str(1)
    /\ head_data["dummy"] = str(7)
    /\ head_data["roughness"] = <<"r">>
    /\ Len(Val(Val(output).out)) = HeaderLines

---------------------------------------------------------------------------
(* AIsisUnit.checkIncreases, called on its own *)

\* a unit whose 'main' collection holds a strictly increasing ordering column
CheckInit ==
    /\ row_data \in {[main |-> r] : r \in IncreasingRows(MaxRows)}
    /\ py \in {2, 3}
    /\ last = [op |-> "init", err |-> "ok"]
    /\ unit_type = "Unknown"
    /\ rawLines = << >>
    /\ data = << >>
    /\ no_of_rows = None
    /\ origin = "fresh"
    /\ head_data = << >>
    /\ output = None
    /\ cursor = 0
    /\ owners = << >>
    /\ step = 0
    /\ heap = << >>
    /\ units = << >>

\* checkIncreases(data_obj, value, index) on the ordering column
CheckIncreases ==
    \E value \in Values, index \in Indexes :
        \E e \in {checkIncreases(row_data["main"], value, index)} :
           /\ last' = [op |-> "checkIncreases", err |-> e, value |-> value,
                       index |-> index]
           /\ UNCHANGED <<row_data, rowsFrame>>

CheckNext == CheckIncreases

SpecCheck == CheckInit /\ [][CheckNext]_vars

---------------------------------------------------------------------------
(* checkIncreases: properties *)

\* C14: for an index from 0 to one past the last row, checkIncreases raises
\* ValueError exactly when the value is not strictly greater than the value at
\* index - 1 (index > 0) or not strictly less than the value after index
\* (index not the last position), whatever the neighbours, 0 and negative
\* values included; with the index omitted it checks against the last row
\* alone and reads no position beyond the column's end.
ChecksNeighbours ==
    last.op = "checkIncreases" =>
        LET col == row_data["main"]
            idx == IF IsNone(last.index) THEN Len(col) ELSE Val(last.index)
        IN /\ (0 <= idx /\ idx <= Len(col)) =>
                (last.err = "ValueError" <=>
                    \/ idx > 0 /\ ~(last.value > At(col, idx - 1))
                    \/ idx + 1 < Len(col) /\ ~(last.value < At(col, idx + 1)))
           /\ IsNone(last.index) =>
                /\ last.err # "IndexError"
                /\ last.err = "ValueError" <=>
                      (Len(col) > 0 /\ ~(last.value > At(col, Len(col) - 1)))

---------------------------------------------------------------------------
(* CommentUnit whose public attributes a client also assigns *)

\* files holding one well-formed count line and as many lines, fewer or more
EditFiles ==
    {<<TagLine, FormatRight(str(n))>> \o body :
        n \in 0..MaxCount, body \in SeqsUpTo({<<"a">>}, MaxBody)}

CommentEditInit ==
    /\ rawLines \in EditFiles
    /\ \E text \in {<< >>, <<"a">>} :
        LET u == CommentUnitInit(text)
        IN /\ data = u.data
           /\ no_of_rows = u.no_of_rows
           /\ origin = IF Len(u.data) = 0 THEN "fresh" ELSE "text"
           /\ last = [op |-> "init", err |-> "ok", text |-> text]
    /\ head_data = << >>
    /\ output = None
    /\ row_data = << >>
    /\ py = 3
    /\ cursor = 0
    /\ owners = << >>
    /\ step = 0
    /\ heap = << >>
    /\ units = << >>
    /\ unit_type = "comment"

editFrame == <<rawLines, head_data, rowVars, loaderVars, copyVars, unit_type>>

\* unit.no_of_rows = n
SetCount ==
    \E n \in 0..MaxCount :
        /\ no_of_rows' = Some(n)
        /\ origin' = "mixed"
        /\ last' = [op |-> "no_of_rows =", err |-> "ok"]
        /\ output' = None
        /\ UNCHANGED <<data, editFrame>>

\* unit.data = d, or any edit of the list that leaves it as d
SetData ==
    \E d \in SeqsUpTo({<<"a">>}, MaxData) :
        /\ data' = d
        /\ origin' = "mixed"
        /\ last' = [op |-> "data =", err |-> "ok"]
        /\ output' = None
        /\ UNCHANGED <<no_of_rows, editFrame>>

CommentEditNext ==
    AddCommentText \/ CommentRead \/ CommentGet \/ SetCount \/ SetData

SpecCommentEdit == CommentEditInit /\ [][CommentEditNext]_vars

\* C15: whenever getData returns, the count written on its second line is the
\* number of lines that follow that line in the same output.
EmittedCountMatches ==
    (~IsNone(output) /\ Val(output).err = "ok") =>
        LET out == Val(Val(output).out)
        IN /\ Len(out) >= 2
           /\ int(out[2]) = [err |-> "ok", v |-> Len(out) - 2]

====
